---- MODULE Spec2Model ----
(***************************************************************************)
(* Point groups of elliptic curves over GF(p): the arithmetic of           *)
(* point_gfp.cpp (Jacobian coordinates kept in the Montgomery domain),     *)
(* the invariant check and the SEC1 octet-string codec.                    *)
(***************************************************************************)
EXTENDS Integers, Sequences, FiniteSets, TLC

(***************************************************************************)
(* Bounds of the model.                                                    *)
(***************************************************************************)
\* scalars of chained multiplications range over -MaxScalar..MaxScalar
MaxScalar == 9
\* scalars of operator*= among the other calls range over
\* -MaxMixedScalar..MaxMixedScalar
MaxMixedScalar == 3
\* coordinate bytes of an octet string handed to OS2ECP range over 0..p+ByteSlack
ByteSlack == 1
\* arithmetic calls made in one behaviour
MaxOps == 2
\* scalar multiplications chained in one behaviour
MaxMuls == 2
\* calls made in one behaviour of the codec and of the invariant check
MaxCodecOps == 3

(***************************************************************************)
(* BigInt and number theory helpers (interface of the big-integer type).   *)
(***************************************************************************)
RECURSIVE Pow(_, _)
Pow(b, e) == IF e = 0 THEN 1 ELSE b * Pow(b, e - 1)

Abs(n) == IF n < 0 THEN -n ELSE n

\* BigInt::bits(): bit length of the magnitude
RECURSIVE Bits(_)
Bits(n) == IF Abs(n) = 0 THEN 0 ELSE 1 + Bits(Abs(n) \div 2)

\* BigInt::bytes(): byte length of the magnitude
BytesOf(n) == (Bits(n) + 7) \div 8

\* BigInt::get_substring(offset, length) on the magnitude
get_substring(n, offset, length) == (Abs(n) \div Pow(2, offset)) % Pow(2, length)

\* BigInt::get_bit(i) on the magnitude
get_bit(n, i) == ((Abs(n) \div Pow(2, i)) % 2) = 1

\* inverse_mod(a, p): 0 when no inverse exists
inverse_mod(a, p) ==
    IF \E v \in 0..(p - 1) : (a * v) % p = 1
    THEN CHOOSE v \in 0..(p - 1) : (a * v) % p = 1
    ELSE 0

\* the square roots of g modulo p
Roots(g, p) == {v \in 0..(p - 1) : (v * v) % p = g % p}

\* ressol(g, p): a square root of g modulo p, -1 when there is none; which
\* of the two roots is returned is the routine's choice
ressol(g, p, which) ==
    IF Roots(g, p) = {} THEN -1
    ELSE LET lo == CHOOSE v \in Roots(g, p) : \A w \in Roots(g, p) : v <= w
             hi == CHOOSE v \in Roots(g, p) : \A w \in Roots(g, p) : v >= w
         IN IF which = 0 THEN lo ELSE hi

\* BigInt::encode_1363(n, bytes): fixed-width big-endian octets
encode_1363(n, bytes) ==
    [i \in 1..bytes |-> (n \div Pow(256, bytes - i)) % 256]

\* BigInt::decode(buf, length): big-endian octets to integer
RECURSIVE decode(_)
decode(buf) ==
    IF Len(buf) = 0 THEN 0
    ELSE decode(SubSeq(buf, 1, Len(buf) - 1)) * 256 + buf[Len(buf)]

(***************************************************************************)
(* Modular_Reducer bound to p.                                             *)
(***************************************************************************)
reduce(v, p) == v % p
multiply(u, v, p) == (u * v) % p
square(v, p) == (v * v) % p
cube(v, p) == (v * v * v) % p

(***************************************************************************)
(* CurveGFp: domain parameters and Montgomery constants.                   *)
(***************************************************************************)
\* bits of one machine word of the Montgomery radix
MP_WORD_BITS == 8

sig_words(p) == (Bits(p) + MP_WORD_BITS - 1) \div MP_WORD_BITS

CurveGFp(p, a, b) ==
    LET r == Pow(2, sig_words(p) * MP_WORD_BITS)
    IN [p |-> p, a |-> a, b |-> b,
        r |-> r,
        r_inv |-> inverse_mod(r % p, p),
        a_r |-> (a * r) % p]

\* the curves of the model: y^2 = x^3 + 3x + 1 over GF(7) (order 12) and
\* y^2 = x^3 + x + 3 over GF(11) (order 18)
Curves == {CurveGFp(7, 3, 1), CurveGFp(11, 1, 3)}

\* with the textbook curve y^2 = x^3 + x + 1 over GF(23) (order 28)
MulCurves == Curves \cup {CurveGFp(23, 1, 1)}

(***************************************************************************)
(* PointGFp: construction and predicates.                                  *)
(***************************************************************************)
\* PointGFp(curve): the point at infinity
PointGFpZero(curve) ==
    [curve |-> curve, x |-> 0, y |-> curve.r, z |-> 0]

\* PointGFp(curve, x, y): affine coordinates lifted into the Montgomery domain
PointGFp(curve, x, y) ==
    [curve |-> curve,
     x |-> multiply(curve.r, x, curve.p),
     y |-> multiply(curve.r, y, curve.p),
     z |-> reduce(curve.r, curve.p)]

is_zero(P) == P.z = 0

negate(P) ==
    IF is_zero(P) THEN P ELSE [P EXCEPT !.y = (P.curve.p - P.y) % P.curve.p]

(***************************************************************************)
(* Montgomery multiplication and squaring.                                 *)
(***************************************************************************)
\* REDC of the double-width product: t * R^-1 mod p, in [0, p)
bigint_monty_redc(t, curve) == (t * curve.r_inv) % curve.p

monty_mult(a, b, curve) ==
    IF a = 0 \/ b = 0 THEN 0
    ELSE bigint_monty_redc(a * b, curve)

monty_sqr(x, curve) ==
    IF x = 0 THEN 0
    ELSE bigint_monty_redc(x * x, curve)

(***************************************************************************)
(* Workspace: eleven BigInt temporaries, ws_bn[0..10] of the source are    *)
(* slots 1..11 here.                                                       *)
(*                                                                         *)
(* add, mult2 and operator*= are written statement by statement: a frame   *)
(* holds the object, the arguments, the locals and the number pc of the    *)
(* next statement (0 once the function has returned), and every statement  *)
(* maps a frame to the next one.                                           *)
(***************************************************************************)
WS_BN_SIZE == 11

Workspace == [i \in 1..WS_BN_SIZE |-> 0]

\* the element of a singleton set
Only(S) == CHOOSE v \in S : TRUE

RECURSIVE AddWhileNegative(_, _)
AddWhileNegative(v, p) == IF v < 0 THEN AddWhileNegative(v + p, p) ELSE v

\* mult2 with the curve coefficient a taken outside the Montgomery domain
mult2_a_z4_plain_a(st) ==
    [st EXCEPT !.ws[4] = monty_mult(st.this.curve.a, st.ws[3], st.this.curve),
               !.pc = 6]

\* a_z4 = monty_mult(curve.get_a_r(), z4, ws)
mult2_a_z4(st) ==
    [st EXCEPT !.ws[4] = monty_mult(st.this.curve.a_r, st.ws[3], st.this.curve),
               !.pc = 6]

\* the statements of PointGFp::mult2; slots: 1 y_2, 2 S, 3 z4, 4 a_z4, 5 M,
\* 6 U, 7 x, 8 y, 9 z
mult2_stmt(st) ==
    LET c  == st.this.curve
        p  == st.this.curve.p
        ws == st.ws
    IN CASE st.pc = 1 ->      \* is_zero() / coord_y.is_zero()
              IF is_zero(st.this) THEN [st EXCEPT !.pc = 0]
              ELSE IF st.this.y = 0
              THEN [st EXCEPT !.this = PointGFpZero(c), !.pc = 0]
              ELSE [st EXCEPT !.pc = 2]
         [] st.pc = 2 ->      \* y_2 = monty_sqr(coord_y)
              [st EXCEPT !.ws[1] = monty_sqr(st.this.y, c), !.pc = 3]
         [] st.pc = 3 ->      \* S = reduce(4 * monty_mult(coord_x, y_2))
              [st EXCEPT !.ws[2] = reduce(4 * monty_mult(st.this.x, ws[1], c), p),
                         !.pc = 4]
         [] st.pc = 4 ->      \* z4 = monty_sqr(monty_sqr(coord_z))
              [st EXCEPT !.ws[3] = monty_sqr(monty_sqr(st.this.z, c), c),
                         !.pc = 5]
         [] st.pc = 5 -> mult2_a_z4(st)
         [] st.pc = 6 ->      \* M = reduce(a_z4 + 3 * monty_sqr(coord_x))
              [st EXCEPT !.ws[5] = reduce(ws[4] + 3 * monty_sqr(st.this.x, c), p),
                         !.pc = 7]
         [] st.pc = 7 ->      \* x = reduce(monty_sqr(M) - 2*S)
              [st EXCEPT !.ws[7] = reduce(monty_sqr(ws[5], c) - 2 * ws[2], p),
                         !.pc = 8]
         [] st.pc = 8 ->      \* U = reduce(monty_sqr(y_2) << 3)
              [st EXCEPT !.ws[6] = reduce(monty_sqr(ws[1], c) * 8, p), !.pc = 9]
         [] st.pc = 9 ->      \* S -= x; while(S.is_negative()) S += p
              [st EXCEPT !.ws[2] = AddWhileNegative(ws[2] - ws[7], p), !.pc = 10]
         [] st.pc = 10 ->     \* y = monty_mult(M, S) - U; if negative, y += p
              [st EXCEPT !.ws[8] =
                            IF monty_mult(ws[5], ws[2], c) - ws[6] < 0
                            THEN monty_mult(ws[5], ws[2], c) - ws[6] + p
                            ELSE monty_mult(ws[5], ws[2], c) - ws[6],
                         !.pc = 11]
         [] st.pc = 11 ->     \* z = 2 * monty_mult(coord_y, coord_z); if z >= p, z -= p
              [st EXCEPT !.ws[9] =
                            IF 2 * monty_mult(st.this.y, st.this.z, c) >= p
                            THEN 2 * monty_mult(st.this.y, st.this.z, c) - p
                            ELSE 2 * monty_mult(st.this.y, st.this.z, c),
                         !.pc = 12]
         [] st.pc = 12 ->     \* coord_x = x; coord_y = y; coord_z = z
              [st EXCEPT !.this = [curve |-> c, x |-> ws[7], y |-> ws[8],
                                   z |-> ws[9]],
                         !.pc = 0]

RECURSIVE mult2_run(_)
mult2_run(st) ==
    IF st.pc = 0 THEN st ELSE Only({mult2_run(s) : s \in {mult2_stmt(st)}})

\* PointGFp::mult2: *this *= 2; yields the point and the workspace after it
mult2(P, ws) ==
    Only({[pt |-> r.this, ws |-> r.ws] :
             r \in {mult2_run([this |-> P, ws |-> ws, pc |-> 1])}})

\* the branch H == 0 of add without its doubling case
add_H_is_zero_no_double(st) ==
    [st EXCEPT !.this = PointGFpZero(st.this.curve), !.pc = 0]

\* the branch H == 0 of add without its test of r
add_H_is_zero_no_inverse(st) ==
    Only({[st EXCEPT !.this = m.pt, !.ws = m.ws, !.pc = 0] :
             m \in {mult2(st.this, st.ws)}})

\* the branch H == 0 of add: the operands have the same affine x, so they
\* are equal (r == 0: mult2(workspace)) or opposite (*this becomes zero)
add_H_is_zero(st) ==
    IF st.ws[8] = 0
    THEN Only({[st EXCEPT !.this = m.pt, !.ws = m.ws, !.pc = 0] :
                  m \in {mult2(st.this, st.ws)}})
    ELSE [st EXCEPT !.this = PointGFpZero(st.this.curve), !.pc = 0]

\* the statements of PointGFp::add; slots: 1 rhs_z2, 2 U1, 3 S1, 4 lhs_z2,
\* 5 U2, 6 S2, 7 H, 8 r, 9 x, 10 y, 11 z
add_stmt(st) ==
    LET c   == st.this.curve
        p   == st.this.curve.p
        ws  == st.ws
        rhs == st.rhs
    IN CASE st.pc = 1 ->      \* is_zero() / rhs.is_zero()
              IF is_zero(st.this)
              THEN [st EXCEPT !.this.x = rhs.x, !.this.y = rhs.y,
                              !.this.z = rhs.z, !.pc = 0]
              ELSE IF is_zero(rhs) THEN [st EXCEPT !.pc = 0]
              ELSE [st EXCEPT !.pc = 2]
         [] st.pc = 2 ->      \* rhs_z2 = monty_sqr(rhs.coord_z)
              [st EXCEPT !.ws[1] = monty_sqr(rhs.z, c), !.pc = 3]
         [] st.pc = 3 ->      \* U1 = monty_mult(coord_x, rhs_z2)
              [st EXCEPT !.ws[2] = monty_mult(st.this.x, ws[1], c), !.pc = 4]
         [] st.pc = 4 ->      \* S1 = monty_mult(coord_y, monty_mult(rhs.coord_z, rhs_z2))
              [st EXCEPT !.ws[3] =
                            monty_mult(st.this.y, monty_mult(rhs.z, ws[1], c), c),
                         !.pc = 5]
         [] st.pc = 5 ->      \* lhs_z2 = monty_sqr(coord_z)
              [st EXCEPT !.ws[4] = monty_sqr(st.this.z, c), !.pc = 6]
         [] st.pc = 6 ->      \* U2 = monty_mult(rhs.coord_x, lhs_z2)
              [st EXCEPT !.ws[5] = monty_mult(rhs.x, ws[4], c), !.pc = 7]
         [] st.pc = 7 ->      \* S2 = monty_mult(rhs.coord_y, monty_mult(coord_z, lhs_z2))
              [st EXCEPT !.ws[6] =
                            monty_mult(rhs.y, monty_mult(st.this.z, ws[4], c), c),
                         !.pc = 8]
         [] st.pc = 8 ->      \* H = reduce(U2 - U1)
              [st EXCEPT !.ws[7] = reduce(ws[5] - ws[2], p), !.pc = 9]
         [] st.pc = 9 ->      \* r = reduce(S2 - S1)
              [st EXCEPT !.ws[8] = reduce(ws[6] - ws[3], p), !.pc = 10]
         [] st.pc = 10 ->     \* if(H.is_zero())
              IF ws[7] = 0 THEN add_H_is_zero(st) ELSE [st EXCEPT !.pc = 11]
         [] st.pc = 11 ->     \* U2 = monty_sqr(H)
              [st EXCEPT !.ws[5] = monty_sqr(ws[7], c), !.pc = 12]
         [] st.pc = 12 ->     \* S2 = monty_mult(U2, H)
              [st EXCEPT !.ws[6] = monty_mult(ws[5], ws[7], c), !.pc = 13]
         [] st.pc = 13 ->     \* U2 = monty_mult(U1, U2)
              [st EXCEPT !.ws[5] = monty_mult(ws[2], ws[5], c), !.pc = 14]
         [] st.pc = 14 ->     \* x = reduce(monty_sqr(r) - S2 - U2*2)
              [st EXCEPT !.ws[9] =
                            reduce(monty_sqr(ws[8], c) - ws[6] - ws[5] * 2, p),
                         !.pc = 15]
         [] st.pc = 15 ->     \* U2 -= x; if negative, U2 += p
              [st EXCEPT !.ws[5] = IF ws[5] - ws[9] < 0 THEN ws[5] - ws[9] + p
                                   ELSE ws[5] - ws[9],
                         !.pc = 16]
         [] st.pc = 16 ->     \* y = monty_mult(r, U2) - monty_mult(S1, S2); if negative, y += p
              [st EXCEPT !.ws[10] =
                            IF monty_mult(ws[8], ws[5], c)
                                  - monty_mult(ws[3], ws[6], c) < 0
                            THEN monty_mult(ws[8], ws[5], c)
                                  - monty_mult(ws[3], ws[6], c) + p
                            ELSE monty_mult(ws[8], ws[5], c)
                                  - monty_mult(ws[3], ws[6], c),
                         !.pc = 17]
         [] st.pc = 17 ->     \* z = monty_mult(monty_mult(coord_z, rhs.coord_z), H)
              [st EXCEPT !.ws[11] =
                            monty_mult(monty_mult(st.this.z, rhs.z, c), ws[7], c),
                         !.pc = 18]
         [] st.pc = 18 ->     \* coord_x = x; coord_y = y; coord_z = z
              [st EXCEPT !.this = [curve |-> c, x |-> ws[9], y |-> ws[10],
                                   z |-> ws[11]],
                         !.pc = 0]

RECURSIVE add_run(_)
add_run(st) ==
    IF st.pc = 0 THEN st ELSE Only({add_run(s) : s \in {add_stmt(st)}})

\* PointGFp::add: *this += rhs with the caller's workspace
add(P, rhs, ws) ==
    Only({[pt |-> r.this, ws |-> r.ws] :
             r \in {add_run([this |-> P, rhs |-> rhs, ws |-> ws, pc |-> 1])}})

(***************************************************************************)
(* Arithmetic operators.                                                   *)
(***************************************************************************)
\* operator+=: add with a workspace of its own
op_plus_eq(P, rhs) == add(P, rhs, Workspace).pt

\* operator-=
op_minus_eq(P, rhs) ==
    IF is_zero(P) THEN negate(rhs) ELSE op_plus_eq(P, negate(rhs))

\* H.mult2(ws) of operator*=; dbl counts these calls
mul_double_H(st, next) ==
    Only({[st EXCEPT !.H = m.pt, !.ws = m.ws, !.dbl = st.dbl + 1, !.pc = next] :
             m \in {mult2(st.H, st.ws)}})

\* H.add(Q, ws) of operator*=
mul_add_H(st, Q, next) ==
    Only({[st EXCEPT !.H = m.pt, !.ws = m.ws, !.pc = next] :
             m \in {add(st.H, Q, st.ws)}})

\* the final doubling made only when bit 0 is set
mul_last_double_if_set(st) ==
    IF Bits(st.scalar) % 2 = 1 /\ get_bit(st.scalar, 0)
    THEN mul_double_H(st, 9)
    ELSE [st EXCEPT !.pc = 10]

\* if(scalar_bits % 2) H.mult2(ws)
mul_last_double(st) ==
    IF Bits(st.scalar) % 2 = 1 THEN mul_double_H(st, 9)
    ELSE [st EXCEPT !.pc = 10]

\* the final bit without its addition of P
mul_last_add_skipped(st) ==
    [st EXCEPT !.pc = 10]

\* if(scalar.get_bit(0)) H.add(P, ws), within if(scalar_bits % 2)
mul_last_add(st) ==
    IF get_bit(st.scalar, 0) THEN mul_add_H(st, st.P, 10)
    ELSE [st EXCEPT !.pc = 10]

\* the statements of PointGFp::operator*=
mul_stmt(st) ==
    LET c == st.this.curve
        scalar == st.scalar
        scalar_bits == Bits(st.scalar)
    IN CASE st.pc = 1 ->      \* special cases for small values, else H and P
              IF Abs(scalar) <= 2
              THEN IF Abs(scalar) = 0
                   THEN [st EXCEPT !.this = PointGFpZero(c), !.pc = 0]
                   ELSE IF Abs(scalar) = 1
                   THEN [st EXCEPT !.this = IF scalar < 0 THEN negate(st.this)
                                            ELSE st.this,
                                   !.pc = 0]
                   ELSE Only({[st EXCEPT !.this = IF scalar < 0 THEN negate(m.pt)
                                                  ELSE m.pt,
                                         !.ws = m.ws, !.pc = 0] :
                                 m \in {mult2(st.this, st.ws)}})
              ELSE [st EXCEPT !.H = PointGFpZero(c),
                              !.P = IF scalar < 0 THEN negate(st.this)
                                    ELSE st.this,
                              !.pc = 2]
         [] st.pc = 2 ->      \* P2 = P * 2: a copy of P doubled by its own *= 2
              [st EXCEPT !.P2 = mult2(st.P, Workspace).pt, !.pc = 3]
         [] st.pc = 3 ->      \* P3 = P2 + P
              [st EXCEPT !.P3 = op_plus_eq(st.P2, st.P), !.pc = 4]
         [] st.pc = 4 ->      \* for(i = 0; i < scalar_bits - 1; i += 2)
              IF st.i < scalar_bits - 1 THEN [st EXCEPT !.pc = 5]
              ELSE [st EXCEPT !.pc = 8]
         [] st.pc = 5 -> mul_double_H(st, 6)
         [] st.pc = 6 -> mul_double_H(st, 7)
         [] st.pc = 7 ->      \* nibble = get_substring(scalar_bits - i - 2, 2)
              LET nibble == get_substring(scalar, scalar_bits - st.i - 2, 2)
                  added  == IF nibble = 3 THEN mul_add_H(st, st.P3, 4)
                            ELSE IF nibble = 2 THEN mul_add_H(st, st.P2, 4)
                            ELSE IF nibble = 1 THEN mul_add_H(st, st.P, 4)
                            ELSE [st EXCEPT !.pc = 4]
              IN [added EXCEPT !.i = st.i + 2]
         [] st.pc = 8 -> mul_last_double(st)
         [] st.pc = 9 -> mul_last_add(st)
         [] st.pc = 10 ->     \* *this = H
              [st EXCEPT !.this = st.H, !.pc = 0]

RECURSIVE mul_run(_)
mul_run(st) ==
    IF st.pc = 0 THEN st ELSE Only({mul_run(s) : s \in {mul_stmt(st)}})

\* operator*=: yields the product and the number of calls H.mult2(ws)
op_mul_eq(this, scalar) ==
    Only({[pt |-> r.this, dbl |-> r.dbl] :
             r \in {mul_run([this |-> this, scalar |-> scalar,
                             H |-> this, P |-> this, P2 |-> this, P3 |-> this,
                             i |-> 0, ws |-> Workspace, dbl |-> 0, pc |-> 1])}})

(***************************************************************************)
(* Affine conversion, invariant check, equality.                           *)
(***************************************************************************)
get_affine_x(P) ==
    IF is_zero(P) THEN [thrown |-> "Illegal_Transformation", value |-> 0]
    ELSE LET p  == P.curve.p
             x  == multiply(P.curve.r_inv, P.x, p)
             z  == multiply(P.curve.r_inv, P.z, p)
             z2 == square(z, p)
         IN [thrown |-> "none", value |-> multiply(x, inverse_mod(z2, p), p)]

get_affine_y(P) ==
    IF is_zero(P) THEN [thrown |-> "Illegal_Transformation", value |-> 0]
    ELSE LET p  == P.curve.p
             y  == multiply(P.curve.r_inv, P.y, p)
             z  == multiply(P.curve.r_inv, P.z, p)
             z3 == cube(z, p)
         IN [thrown |-> "none", value |-> multiply(y, inverse_mod(z3, p), p)]

\* check_invariants testing the equation only when z == 1
check_invariants_affine_only(P) ==
    IF is_zero(P) THEN "ok"
    ELSE LET c  == P.curve
             p  == c.p
             x  == multiply(c.r_inv, P.x, p)
             y  == multiply(c.r_inv, P.y, p)
             z  == multiply(c.r_inv, P.z, p)
             y2 == square(y, p)
             x3 == cube(x, p)
             ax == multiply(x, c.a, p)
         IN IF z = 1 /\ reduce(x3 + ax + c.b, p) # y2 THEN "Illegal_Point"
            ELSE "ok"

\* check_invariants: "ok" when it returns, else the exception thrown
check_invariants(P) ==
    IF is_zero(P) THEN "ok"
    ELSE LET c  == P.curve
             p  == c.p
             x  == multiply(c.r_inv, P.x, p)
             y  == multiply(c.r_inv, P.y, p)
             z  == multiply(c.r_inv, P.z, p)
             y2 == square(y, p)
             x3 == cube(x, p)
             ax == multiply(x, c.a, p)
             z2 == square(z, p)
             z3 == multiply(z, z2, p)
             ax_z4 == multiply(multiply(z3, z, p), ax, p)
             b_z6  == multiply(c.b, square(z3, p), p)
         IN IF z = 1 /\ reduce(x3 + ax + c.b, p) # y2 THEN "Illegal_Point"
            ELSE IF y2 # reduce(x3 + ax_z4 + b_z6, p) THEN "Illegal_Point"
            ELSE "ok"

\* operator==: "true", "false", or the exception thrown by get_affine_x on
\* a zero right-hand side
op_eq(P, other) ==
    IF P.curve # other.curve THEN "false"
    ELSE IF is_zero(P) THEN (IF is_zero(other) THEN "true" ELSE "false")
    ELSE IF is_zero(other) THEN "Illegal_Transformation"
    ELSE IF get_affine_x(P).value = get_affine_x(other).value
            /\ get_affine_y(P).value = get_affine_y(other).value
         THEN "true" ELSE "false"

(***************************************************************************)
(* Encoding and decoding.                                                  *)
(***************************************************************************)
UNCOMPRESSED == 0
COMPRESSED == 1
HYBRID == 2

\* EC2OSP with the compressed tag never marked odd
EC2OSP_parity_lost(point, format) ==
    IF is_zero(point) THEN [thrown |-> "none", bytes |-> <<0>>]
    ELSE LET p_bytes == BytesOf(point.curve.p)
             x  == get_affine_x(point).value
             y  == get_affine_y(point).value
             bX == encode_1363(x, p_bytes)
             bY == encode_1363(y, p_bytes)
             odd == IF get_bit(y, 0) THEN 1 ELSE 0
         IN IF format = UNCOMPRESSED
            THEN [thrown |-> "none", bytes |-> <<4>> \o bX \o bY]
            ELSE IF format = COMPRESSED
            THEN [thrown |-> "none", bytes |-> <<2>> \o bX]
            ELSE IF format = HYBRID
            THEN [thrown |-> "none", bytes |-> <<6 + odd>> \o bX \o bY]
            ELSE [thrown |-> "Invalid_Argument", bytes |-> <<>>]

EC2OSP(point, format) ==
    IF is_zero(point) THEN [thrown |-> "none", bytes |-> <<0>>]
    ELSE LET p_bytes == BytesOf(point.curve.p)
             x  == get_affine_x(point).value
             y  == get_affine_y(point).value
             bX == encode_1363(x, p_bytes)
             bY == encode_1363(y, p_bytes)
             odd == IF get_bit(y, 0) THEN 1 ELSE 0
         IN IF format = UNCOMPRESSED
            THEN [thrown |-> "none", bytes |-> <<4>> \o bX \o bY]
            ELSE IF format = COMPRESSED
            THEN [thrown |-> "none", bytes |-> <<2 + odd>> \o bX]
            ELSE IF format = HYBRID
            THEN [thrown |-> "none", bytes |-> <<6 + odd>> \o bX \o bY]
            ELSE [thrown |-> "Invalid_Argument", bytes |-> <<>>]

decompress_point(yMod2, x, curve, which) ==
    \* x * x * x is an unbounded BigInt product; it is taken modulo p
    \* factor by factor here, which leaves g unchanged
    LET xpow3 == ((x * x) % curve.p) * x
        g == (curve.a * x + xpow3 + curve.b) % curve.p
        z == ressol(g, curve.p, which)
    IN IF z < 0 THEN [thrown |-> "Illegal_Point", value |-> 0]
       ELSE IF get_bit(z, 0) # yMod2
       THEN [thrown |-> "none", value |-> curve.p - z]
       ELSE [thrown |-> "none", value |-> z]

\* the coordinates read with the hybrid form's stored Y trusted
os2ecp_coords_trusting(data, curve, which) ==
    LET data_len == Len(data)
        pc == data[1]
        l  == (data_len - 1) \div 2
        yMod2 == (pc % 2) = 1
    IN IF pc = 2 \/ pc = 3
       THEN LET x == decode(SubSeq(data, 2, data_len))
                y == decompress_point(yMod2, x, curve, which)
            IN [thrown |-> y.thrown, x |-> x, y |-> y.value]
       ELSE IF pc = 4 \/ pc = 6 \/ pc = 7
       THEN [thrown |-> "none",
             x |-> decode(SubSeq(data, 2, l + 1)),
             y |-> decode(SubSeq(data, l + 2, 2 * l + 1))]
       ELSE [thrown |-> "Invalid_Argument", x |-> 0, y |-> 0]

\* the coordinates OS2ECP reads from the octet string, or the exception
os2ecp_coords(data, curve, which) ==
    LET data_len == Len(data)
        pc == data[1]
        l  == (data_len - 1) \div 2
        yMod2 == (pc % 2) = 1
    IN IF pc = 2 \/ pc = 3
       THEN LET x == decode(SubSeq(data, 2, data_len))
                y == decompress_point(yMod2, x, curve, which)
            IN [thrown |-> y.thrown, x |-> x, y |-> y.value]
       ELSE IF pc = 4
       THEN [thrown |-> "none",
             x |-> decode(SubSeq(data, 2, l + 1)),
             y |-> decode(SubSeq(data, l + 2, 2 * l + 1))]
       ELSE IF pc = 6 \/ pc = 7
       THEN LET x == decode(SubSeq(data, 2, l + 1))
                y == decode(SubSeq(data, l + 2, 2 * l + 1))
                d == decompress_point(yMod2, x, curve, which)
            IN IF d.thrown # "none" THEN [thrown |-> d.thrown, x |-> x, y |-> y]
               ELSE IF d.value # y THEN [thrown |-> "Illegal_Point", x |-> x, y |-> y]
               ELSE [thrown |-> "none", x |-> x, y |-> y]
       ELSE [thrown |-> "Invalid_Argument", x |-> 0, y |-> 0]

\* OS2ECP returning its point without check_invariants
OS2ECP_unchecked(data, curve, which) ==
    IF Len(data) <= 1 THEN [thrown |-> "none", pt |-> PointGFpZero(curve)]
    ELSE LET xy == os2ecp_coords(data, curve, which)
             result == PointGFp(curve, xy.x, xy.y)
         IN IF xy.thrown # "none"
            THEN [thrown |-> xy.thrown, pt |-> PointGFpZero(curve)]
            ELSE [thrown |-> "none", pt |-> result]

\* OS2ECP: the decoded point, or the exception thrown
OS2ECP(data, curve, which) ==
    IF Len(data) <= 1 THEN [thrown |-> "none", pt |-> PointGFpZero(curve)]
    ELSE LET xy == os2ecp_coords(data, curve, which)
             result == PointGFp(curve, xy.x, xy.y)
         IN IF xy.thrown # "none"
            THEN [thrown |-> xy.thrown, pt |-> PointGFpZero(curve)]
            ELSE IF check_invariants(result) # "ok"
            THEN [thrown |-> check_invariants(result), pt |-> PointGFpZero(curve)]
            ELSE [thrown |-> "none", pt |-> result]

(***************************************************************************)
(* State.                                                                  *)
(***************************************************************************)
VARIABLES
    curve,   \* the CurveGFp shared by the points
    pts,     \* two PointGFp objects: pts[1] is *this, pts[2] the other operand
    ws_bn,   \* the caller-owned Workspace handed to add and mult2
    data,    \* the octet string last produced by EC2OSP or handed to OS2ECP
    last,    \* the last call: its name, arguments and outcome
    nops     \* number of calls made

vars == <<curve, pts, ws_bn, data, last, nops>>

NoCall == [op |-> "none", prev |-> "none", k |-> 0, rhs |-> 0, fmt |-> 0,
           dbl |-> 0, thrown |-> "none"]

\* the points built by PointGFp(curve, x, y) from affine coordinates on the curve
OnCurve(c, x, y) == (y * y - (x * x * x + c.a * x + c.b)) % c.p = 0

CurvePoints(c) ==
    {PointGFpZero(c)} \cup
    {PointGFp(c, x, y) : <<x, y>> \in
        {xy \in (0..(c.p - 1)) \X (0..(c.p - 1)) : OnCurve(c, xy[1], xy[2])}}

\* the other operand: such a point, or the double of one (a point with z # 1)
OperandPoints(c) ==
    CurvePoints(c) \cup {mult2(Q, Workspace).pt : Q \in CurvePoints(c)}

Init ==
    /\ curve \in Curves
    /\ \E P \in CurvePoints(curve), Q \in OperandPoints(curve) :
          pts = [i \in 1..2 |-> IF i = 1 THEN P ELSE Q]
    /\ ws_bn = Workspace
    /\ data = <<>>
    /\ last = NoCall
    /\ nops = 0

Call(op) == [NoCall EXCEPT !.op = op]

\* the codec calls also record the call before them, or what it threw
CodecCall(op) ==
    [NoCall EXCEPT !.op = op,
                   !.prev = IF last.thrown = "none" THEN last.op ELSE last.thrown]

(***************************************************************************)
(* Arithmetic calls on pts[1].                                             *)
(***************************************************************************)
\* pts[1].add(pts[j], workspace)
Add(j) ==
    /\ nops < MaxOps
    /\ LET res == add(pts[1], pts[j], ws_bn)
       IN /\ pts' = [pts EXCEPT ![1] = res.pt]
          /\ ws_bn' = res.ws
    /\ last' = [Call("add") EXCEPT !.rhs = j]
    /\ nops' = nops + 1
    /\ UNCHANGED <<curve, data>>

\* pts[1].mult2(workspace)
Mult2 ==
    /\ nops < MaxOps
    /\ LET res == mult2(pts[1], ws_bn)
       IN /\ pts' = [pts EXCEPT ![1] = res.pt]
          /\ ws_bn' = res.ws
    /\ last' = Call("mult2")
    /\ nops' = nops + 1
    /\ UNCHANGED <<curve, data>>

\* pts[1] += pts[j]
PlusEq(j) ==
    /\ nops < MaxOps
    /\ pts' = [pts EXCEPT ![1] = op_plus_eq(pts[1], pts[j])]
    /\ last' = [Call("plus_eq") EXCEPT !.rhs = j]
    /\ nops' = nops + 1
    /\ UNCHANGED <<curve, ws_bn, data>>

\* pts[1] -= pts[j]
MinusEq(j) ==
    /\ nops < MaxOps
    /\ pts' = [pts EXCEPT ![1] = op_minus_eq(pts[1], pts[j])]
    /\ last' = [Call("minus_eq") EXCEPT !.rhs = j]
    /\ nops' = nops + 1
    /\ UNCHANGED <<curve, ws_bn, data>>

\* pts[1].negate()
Negate ==
    /\ nops < MaxOps
    /\ pts' = [pts EXCEPT ![1] = negate(pts[1])]
    /\ last' = Call("negate")
    /\ nops' = nops + 1
    /\ UNCHANGED <<curve, ws_bn, data>>

\* pts[1] *= k
MulEqCall(k) ==
    /\ LET res == op_mul_eq(pts[1], k)
       IN /\ pts' = [pts EXCEPT ![1] = res.pt]
          /\ last' = [Call("mul_eq") EXCEPT !.k = k, !.dbl = res.dbl]
    /\ nops' = nops + 1
    /\ UNCHANGED <<curve, ws_bn, data>>

MulEq(k) ==
    /\ nops < MaxOps
    /\ MulEqCall(k)

\* pts[1].swap(pts[2])
Swap ==
    /\ nops < MaxOps
    /\ pts' = [pts EXCEPT ![1] = pts[2], ![2] = pts[1]]
    /\ last' = Call("swap")
    /\ nops' = nops + 1
    /\ UNCHANGED <<curve, ws_bn, data>>

\* pts[1].check_invariants()
CheckInvariants ==
    /\ nops < MaxOps
    /\ last' = [Call("check_invariants") EXCEPT
                   !.thrown = IF check_invariants(pts[1]) = "ok" THEN "none"
                              ELSE check_invariants(pts[1])]
    /\ nops' = nops + 1
    /\ UNCHANGED <<curve, pts, ws_bn, data>>

Next ==
    \/ \E j \in 1..2 : Add(j)
    \/ Mult2
    \/ \E j \in 1..2 : PlusEq(j)
    \/ \E j \in 1..2 : MinusEq(j)
    \/ Negate
    \/ \E k \in (-MaxMixedScalar)..MaxMixedScalar : MulEq(k)
    \/ Swap
    \/ CheckInvariants

Spec == Init /\ [][Next]_vars

(***************************************************************************)
(* Chains of scalar multiplications of one point.                          *)
(***************************************************************************)
InitMul ==
    /\ curve \in MulCurves
    /\ \E P \in CurvePoints(curve) :
          pts = [i \in 1..2 |-> IF i = 1 THEN P ELSE PointGFpZero(curve)]
    /\ ws_bn = Workspace
    /\ data = <<>>
    /\ last = NoCall
    /\ nops = 0

ChainedMulEq(k) ==
    /\ nops < MaxMuls
    /\ MulEqCall(k)

NextMul == \E k \in (-MaxScalar)..MaxScalar : ChainedMulEq(k)

SpecMul == InitMul /\ [][NextMul]_vars

(***************************************************************************)
(* Codec calls: EC2OSP reads pts[1], OS2ECP returns its point in pts[2].   *)
(***************************************************************************)
\* the tag bytes and coordinate bytes of the octet strings handed to OS2ECP
TagBytes == 0..7
CoordBytes(c) == 0..(c.p + ByteSlack)

OctetStrings(c) ==
    {<<>>}
    \cup {<<t>> : t \in TagBytes}
    \cup {<<t, u>> : t \in TagBytes, u \in CoordBytes(c)}
    \cup {<<t, u, v>> : t \in TagBytes, u \in CoordBytes(c), v \in CoordBytes(c)}

InitCodec ==
    /\ curve \in Curves
    /\ \/ /\ data \in OctetStrings(curve)
          /\ pts = [i \in 1..2 |-> PointGFpZero(curve)]
       \/ /\ data = <<>>
          /\ \E P \in CurvePoints(curve) :
                pts = [i \in 1..2 |-> IF i = 1 THEN P ELSE PointGFpZero(curve)]
    /\ ws_bn = Workspace
    /\ last = NoCall
    /\ nops = 0

\* data = EC2OSP(pts[1], fmt)
Encode(fmt) ==
    /\ nops < MaxCodecOps
    /\ LET res == EC2OSP(pts[1], fmt)
       IN /\ data' = IF res.thrown = "none" THEN res.bytes ELSE data
          /\ last' = [CodecCall("encode") EXCEPT !.fmt = fmt, !.thrown = res.thrown]
    /\ nops' = nops + 1
    /\ UNCHANGED <<curve, pts, ws_bn>>

\* pts[2] = OS2ECP(data, curve); which is the root ressol returns
Decode(which) ==
    /\ nops < MaxCodecOps
    /\ LET res == OS2ECP(data, curve, which)
       IN /\ pts' = IF res.thrown = "none" THEN [pts EXCEPT ![2] = res.pt] ELSE pts
          /\ last' = [CodecCall("decode") EXCEPT !.k = which, !.thrown = res.thrown]
    /\ nops' = nops + 1
    /\ UNCHANGED <<curve, ws_bn, data>>

\* the arithmetic calls of the codec and check specifications
CodecMult2 ==
    /\ nops < MaxCodecOps
    /\ LET res == mult2(pts[1], ws_bn)
       IN /\ pts' = [pts EXCEPT ![1] = res.pt]
          /\ ws_bn' = res.ws
    /\ last' = CodecCall("mult2")
    /\ nops' = nops + 1
    /\ UNCHANGED <<curve, data>>

CodecSwap ==
    /\ nops < MaxCodecOps
    /\ pts' = [pts EXCEPT ![1] = pts[2], ![2] = pts[1]]
    /\ last' = CodecCall("swap")
    /\ nops' = nops + 1
    /\ UNCHANGED <<curve, ws_bn, data>>

NextCodec ==
    \/ \E fmt \in 0..3 : Encode(fmt)
    \/ \E which \in 0..1 : Decode(which)
    \/ CodecMult2
    \/ CodecSwap

SpecCodec == InitCodec /\ [][NextCodec]_vars

(***************************************************************************)
(* check_invariants on points built from arbitrary coordinates.            *)
(***************************************************************************)
InitCheck ==
    /\ curve \in Curves
    /\ \E x \in 0..(curve.p - 1), y \in 0..(curve.p - 1) :
          pts = [i \in 1..2 |-> IF i = 1 THEN PointGFp(curve, x, y)
                                ELSE PointGFpZero(curve)]
    /\ ws_bn = Workspace
    /\ data = <<>>
    /\ last = NoCall
    /\ nops = 0

CheckedMult2 == CodecMult2

CheckedCheckInvariants ==
    /\ nops < MaxCodecOps
    /\ last' = [CodecCall("check_invariants") EXCEPT
                   !.thrown = IF check_invariants(pts[1]) = "ok" THEN "none"
                              ELSE check_invariants(pts[1])]
    /\ nops' = nops + 1
    /\ UNCHANGED <<curve, pts, ws_bn, data>>

NextCheck ==
    \/ CheckedMult2
    \/ CodecSwap
    \/ CheckedCheckInvariants

SpecCheck == InitCheck /\ [][NextCheck]_vars

(***************************************************************************)
(* Reference notions used by the properties.                               *)
(***************************************************************************)
\* n * P by repeated group addition
RECURSIVE RepeatAddTo(_, _, _)
RepeatAddTo(sum, P, n) ==
    IF n = 0 THEN sum
    ELSE Only({RepeatAddTo(s, P, n - 1) : s \in {op_plus_eq(sum, P)}})

RepeatAdd(P, n) == RepeatAddTo(PointGFpZero(P.curve), P, n)

\* |k| * P by repeated addition, negated when k < 0
RefMul(P, k) == IF k < 0 THEN negate(RepeatAdd(P, Abs(k))) ELSE RepeatAdd(P, k)

\* y^2 = x^3 + ax + b (mod p) for integers x, y of any size
Weierstrass(c, x, y) ==
    LET xr == x % c.p
        yr == y % c.p
    IN (yr * yr - (xr * xr * xr + c.a * xr + c.b)) % c.p = 0

\* the affine image (x/z^2, y/z^3) of a finite point satisfies the equation
AffineOnCurve(P) ==
    Weierstrass(P.curve, get_affine_x(P).value, get_affine_y(P).value)

\* the coordinates taken out of the Montgomery domain
Plain(P, v) == (v * P.curve.r_inv) % P.curve.p

\* y^2 = x^3 + a x z^4 + b z^6 (mod p) on the plain coordinates
Homogeneous(P) ==
    LET c == P.curve
        x == Plain(P, P.x)
        y == Plain(P, P.y)
        z == Plain(P, P.z)
        z2 == (z * z) % c.p
        z4 == (z2 * z2) % c.p
        z6 == (z4 * z2) % c.p
    IN (y * y - (x * x * x + c.a * x * z4 + c.b * z6)) % c.p = 0

\* the X and Y fields of an uncompressed or hybrid octet string
StoredX == decode(SubSeq(data, 2, ((Len(data) - 1) \div 2) + 1))
StoredY == decode(SubSeq(data, ((Len(data) - 1) \div 2) + 2,
                         2 * ((Len(data) - 1) \div 2) + 1))

\* the integers v in 0..p with v^2 = x^3 + ax + b (mod p) and the parity bit
ParityRoots(c, x, bit) ==
    {v \in 0..c.p : Weierstrass(c, x, v) /\ v % 2 = bit}

(***************************************************************************)
(* Properties.                                                             *)
(***************************************************************************)
\* C1: after pts[1] *= k the point equals, under operator==, |k| * P obtained
\* by repeated addition and negated when k < 0; 0 * P is zero and 1 * P is P.
C1_ScalarMultiply ==
    [][last'.op = "mul_eq" =>
          /\ \A ref \in {RefMul(pts[1], last'.k)} : op_eq(pts'[1], ref) = "true"
          /\ (last'.k = 0 => is_zero(pts'[1]))
          /\ (last'.k = 1 => pts'[1] = pts[1])
          /\ (last'.k = -1 => pts'[1] = negate(pts[1]))]_vars

C1_Witness ==
    /\ last.op = "mul_eq"
    /\ last.k <= -3
    /\ ~is_zero(pts[1])
    /\ nops = 2

\* C2: decoding the octet string just produced by EC2OSP from pts[1] gives a
\* point equal to pts[1], in every format; the zero point encodes to the
\* single byte 0 and decodes to the zero point.
C2_RoundTrip ==
    /\ (last.op = "encode" /\ last.thrown = "none" /\ is_zero(pts[1]))
          => data = <<0>>
    /\ (last.op = "decode" /\ last.prev = "encode")
          => /\ last.thrown = "none"
             /\ op_eq(pts[2], pts[1]) = "true"
             /\ (is_zero(pts[1]) => is_zero(pts[2]))

C2_Witness ==
    /\ last.op = "decode"
    /\ last.prev = "encode"
    /\ data[1] = 3
    /\ ~is_zero(pts[2])
    /\ pts[1].z # pts[2].z

\* C3: OS2ECP fails or returns a point that is zero or on the curve; stored
\* coordinates that are not on the curve make it fail with Illegal_Point.
C3_DecodeOnCurve ==
    last.op = "decode" =>
        /\ last.thrown = "none" =>
              (is_zero(pts[2]) \/ AffineOnCurve(pts[2]))
        /\ (Len(data) > 1 /\ data[1] \in {4, 6, 7}
              /\ ~Weierstrass(curve, StoredX, StoredY))
              => last.thrown = "Illegal_Point"

C3_Witness ==
    /\ last.op = "decode"
    /\ Len(data) = 3
    /\ data[1] = 4
    /\ ~Weierstrass(curve, StoredX, StoredY)
    /\ last.thrown = "Illegal_Point"

\* C4: check_invariants returns silently for the zero point and otherwise
\* throws Illegal_Point exactly when the plain coordinates violate
\* y^2 = x^3 + a x z^4 + b z^6, whatever z is.
C4_CheckInvariants ==
    last.op = "check_invariants" =>
        /\ last.thrown \in {"none", "Illegal_Point"}
        /\ is_zero(pts[1]) => last.thrown = "none"
        /\ ~is_zero(pts[1]) =>
              (last.thrown = "Illegal_Point" <=> ~Homogeneous(pts[1]))

C4_Witness ==
    /\ last.op = "check_invariants"
    /\ ~is_zero(pts[1])
    /\ Plain(pts[1], pts[1].z) # 1
    /\ last.thrown = "Illegal_Point"

\* C5: the affine y of a point decoded from a compressed octet string has the
\* parity of the low bit of the tag.
C5_CompressionParity ==
    (last.op = "decode" /\ last.thrown = "none"
        /\ Len(data) > 1 /\ data[1] \in {2, 3})
        => get_affine_y(pts[2]).value % 2 = data[1] % 2

\* C6: doubling pts[1] gives a point equal to pts[1] + pts[1].
C6_DoubleIsAddSelf ==
    [][last'.op = "mult2" =>
          op_eq(pts'[1], op_plus_eq(pts[1], pts[1])) = "true"]_vars

C6_Witness ==
    /\ last.op = "mult2"
    /\ nops = 2
    /\ ~is_zero(pts[1])
    /\ Plain(pts[1], pts[1].z) # 1

\* C7: adding to pts[1] a point equal to its negation gives the zero point,
\* through add, += and -= alike; pts[1] -= pts[1] gives the zero point.
C7_AddInverse ==
    [][/\ (last'.op \in {"add", "plus_eq"}
             /\ op_eq(pts[last'.rhs], negate(pts[1])) = "true")
          => op_eq(pts'[1], PointGFpZero(curve)) = "true"
       /\ (last'.op = "minus_eq"
             /\ op_eq(pts[last'.rhs], pts[1]) = "true")
          => op_eq(pts'[1], PointGFpZero(curve)) = "true"]_vars

C7_Witness ==
    /\ last.op = "plus_eq"
    /\ last.rhs = 2
    /\ nops = 2
    /\ ~is_zero(pts[2])
    /\ Plain(pts[2], pts[2].z) # 1
    /\ is_zero(pts[1])

\* C8: decoding a hybrid octet string whose stored Y is not the square root
\* of x^3 + ax + b with the parity of the tag fails with Illegal_Point.
C8_HybridMismatch ==
    (last.op = "decode" /\ Len(data) > 1 /\ data[1] \in {6, 7}
        /\ StoredY \notin ParityRoots(curve, StoredX, data[1] % 2))
        => last.thrown = "Illegal_Point"

C8_Witness ==
    /\ last.op = "decode"
    /\ Len(data) = 3
    /\ data[1] \in {6, 7}
    /\ Weierstrass(curve, StoredX, StoredY)
    /\ StoredY % 2 # data[1] % 2
    /\ last.thrown = "Illegal_Point"

\* C9: every point is zero or has an affine image on the curve, and
\* check_invariants returns on it.
C9_PointsStayOnCurve ==
    \A i \in 1..2 :
        /\ check_invariants(pts[i]) = "ok"
        /\ is_zero(pts[i]) \/ AffineOnCurve(pts[i])
        /\ pts[i].x \in 0..(curve.p - 1)
        /\ pts[i].z \in 0..(curve.p - 1)

C9_Witness ==
    /\ nops = 2
    /\ last.op = "add"
    /\ ~is_zero(pts[1])
    /\ Plain(pts[1], pts[1].z) # 1
    /\ ws_bn[11] = pts[1].z

\* C10: on the general path the accumulator is doubled twice per 2-bit
\* window and once more when the bit length is odd, whatever the bits are.
C10_DoublingCount ==
    (last.op = "mul_eq" /\ Abs(last.k) >= 3)
        => last.dbl = 2 * (Bits(last.k) \div 2) + (Bits(last.k) % 2)

C10_Witness ==
    /\ last.op = "mul_eq"
    /\ last.k = 4
    /\ last.dbl = 3

====
